---- MODULE Spec2Model ----
(***************************************************************************)
(* A model of nets/resnet.py: the residual blocks, the stage builder       *)
(* ResNet._make_layer, the assembly and initialisation in ResNet.__init__, *)
(* the five presets, the forward pass (as shape arithmetic) and the        *)
(* backbone freeze / unfreeze switches.                                    *)
(*                                                                         *)
(* Tensors are modelled by their shapes, convolutions by their             *)
(* hyper-parameters, normalisation layers by the value class of their      *)
(* scale and bias, parameters by their requires_grad flag.                 *)
(***************************************************************************)
EXTENDS Integers, Sequences, FiniteSets, TLC

(***************************************************************************)
(* Bounds of the model.                                                    *)
(***************************************************************************)
\* largest repeat count drawn for a stage of a directly constructed ResNet
MaxRepeat == 2
\* largest input side fed to forward
MaxSide == 36

(***************************************************************************)
(* Values.                                                                 *)
(***************************************************************************)
BasicBlock == "BasicBlock"
Bottleneck == "Bottleneck"
Blocks == {BasicBlock, Bottleneck}

\* Python's None where a module or a module list is expected
None == <<>>

\* scale / bias of a normalisation layer as norm_layer(...) leaves it: the
\* source does not fix it (norm_layer is an argument), so it is a value of
\* its own, different from the 0 and 1 the initialiser writes
Created == -1
\* a value copied from the downloaded state dict
Stored == -2

expansion(block) == IF block = Bottleneck THEN 4 ELSE 1

(***************************************************************************)
(* Layers.                                                                 *)
(***************************************************************************)
Conv2d(cin, cout, kernel_size, stride, padding, groups, dilation) ==
    [cin |-> cin, cout |-> cout, kernel_size |-> kernel_size, stride |-> stride,
     padding |-> padding, groups |-> groups, dilation |-> dilation]

\* faulty variant of conv3x3: padding fixed at 1 instead of the dilation
conv3x3PaddingOne(in_planes, out_planes, stride, groups, dilation) ==
    Conv2d(in_planes, out_planes, 3, stride, 1, groups, dilation)

conv3x3(in_planes, out_planes, stride, groups, dilation) ==
    Conv2d(in_planes, out_planes, 3, stride, dilation, groups, dilation)

conv1x1(in_planes, out_planes, stride) ==
    Conv2d(in_planes, out_planes, 1, stride, 0, 1, 1)

norm_layer(num_features) ==
    [num_features |-> num_features, weight |-> Created, bias |-> Created]

Linear(in_features, out_features) ==
    [in_features |-> in_features, out_features |-> out_features]

(***************************************************************************)
(* Blocks.  A constructor either raises or returns the block.              *)
(***************************************************************************)
\* faulty variant of BasicBlockRaises: the dilation check left out
BasicBlockRaisesNoDilationCheck(groups, base_width, dilation) ==
    IF groups # 1 \/ base_width # 64 THEN "ValueError" ELSE "none"

\* the exception BasicBlock.__init__ raises, "none" when it returns
BasicBlockRaises(groups, base_width, dilation) ==
    IF groups # 1 \/ base_width # 64 THEN "ValueError"
    ELSE IF dilation > 1 THEN "NotImplementedError"
    ELSE "none"

BasicBlockInit(inplanes, planes, stride, downsample) ==
    [kind |-> BasicBlock,
     conv1 |-> conv3x3(inplanes, planes, stride, 1, 1),
     bn1 |-> norm_layer(planes),
     conv2 |-> conv3x3(planes, planes, 1, 1, 1),
     bn2 |-> norm_layer(planes),
     downsample |-> downsample,
     stride |-> stride]

BottleneckWidth(planes, groups, base_width) ==
    ((planes * base_width) \div 64) * groups

BottleneckInit(inplanes, planes, stride, downsample, groups, base_width, dilation) ==
    LET width == BottleneckWidth(planes, groups, base_width) IN
    [kind |-> Bottleneck,
     conv1 |-> conv1x1(inplanes, width, 1),
     bn1 |-> norm_layer(width),
     conv2 |-> conv3x3(width, width, stride, groups, dilation),
     bn2 |-> norm_layer(width),
     conv3 |-> conv1x1(width, planes * expansion(Bottleneck), 1),
     bn3 |-> norm_layer(planes * expansion(Bottleneck)),
     downsample |-> downsample,
     stride |-> stride]

\* block(...) for the block class handed to ResNet
BlockRaises(block, groups, base_width, dilation) ==
    IF block = BasicBlock THEN BasicBlockRaises(groups, base_width, dilation)
    ELSE "none"

BlockInit(block, inplanes, planes, stride, downsample, groups, base_width, dilation) ==
    IF block = BasicBlock THEN BasicBlockInit(inplanes, planes, stride, downsample)
    ELSE BottleneckInit(inplanes, planes, stride, downsample, groups, base_width, dilation)

(***************************************************************************)
(* ResNet._make_layer.                                                     *)
(***************************************************************************)
\* faulty variant of MakeLayerDilation: the stride added to the dilation instead of multiplied
MakeLayerDilationAdds(dilation, stride, dilate) ==
    IF dilate THEN dilation + stride ELSE dilation

\* "if dilate: self.dilation *= stride; stride = 1"
MakeLayerDilation(dilation, stride, dilate) ==
    IF dilate THEN dilation * stride ELSE dilation

\* faulty variant of MakeLayerStride: the stride kept when dilate is set
MakeLayerStrideKept(stride, dilate) == stride

MakeLayerStride(stride, dilate) == IF dilate THEN 1 ELSE stride

\* faulty variant of NeedsDownsample: the channel comparison left out
NeedsDownsampleStrideOnly(block, stride, inplanes, planes) == stride # 1

\* "if stride != 1 or self.inplanes != planes * block.expansion"
NeedsDownsample(block, stride, inplanes, planes) ==
    stride # 1 \/ inplanes # planes * expansion(block)

\* faulty variant of NextInplanes: the expansion factor left out
NextInplanesNoExpansion(block, planes) == planes

\* "self.inplanes = planes * block.expansion"
NextInplanes(block, planes) == planes * expansion(block)

\* the result of self._make_layer(block, planes, blocks, stride, dilate) on
\* the running state (inplanes, dilation): the exception raised ("none" when
\* it returns), the blocks, and the running state it leaves
MakeLayer(block, planes, blocks, stride0, dilate, inplanes0, dilation0, groups, base_width) ==
    LET previous_dilation == dilation0
        dilation1 == MakeLayerDilation(dilation0, stride0, dilate)
        stride == MakeLayerStride(stride0, dilate)
        downsample ==
            IF NeedsDownsample(block, stride, inplanes0, planes)
            THEN << conv1x1(inplanes0, planes * expansion(block), stride),
                    norm_layer(planes * expansion(block)) >>
            ELSE None
        first == BlockInit(block, inplanes0, planes, stride, downsample,
                           groups, base_width, previous_dilation)
        firstRaises == BlockRaises(block, groups, base_width, previous_dilation)
        inplanes1 == NextInplanes(block, planes)
        rest == BlockInit(block, inplanes1, planes, 1, None,
                          groups, base_width, dilation1)
        restRaises == IF blocks > 1
                      THEN BlockRaises(block, groups, base_width, dilation1)
                      ELSE "none"
    IN  [raises |-> IF firstRaises # "none" THEN firstRaises ELSE restRaises,
         layers |-> <<first>> \o [i \in 1..(blocks - 1) |-> rest],
         inplanes |-> inplanes1,
         dilation |-> dilation1]

(***************************************************************************)
(* Parameters: one key per learnable tensor, named as named_parameters()   *)
(* names it (module of the network, index in the stage, name in the block).*)
(***************************************************************************)
Key(mod, idx, name) == [mod |-> mod, idx |-> idx, name |-> name]

BlockParamNames(b) ==
    {"conv1.weight", "bn1.weight", "bn1.bias",
     "conv2.weight", "bn2.weight", "bn2.bias"}
    \cup (IF b.kind = Bottleneck
          THEN {"conv3.weight", "bn3.weight", "bn3.bias"} ELSE {})
    \cup (IF b.downsample # None
          THEN {"downsample.0.weight", "downsample.1.weight", "downsample.1.bias"}
          ELSE {})

LayerParams(mod, blocks) ==
    UNION { {Key(mod, i - 1, n) : n \in BlockParamNames(blocks[i])} :
            i \in 1..Len(blocks) }

StemParams == {Key("conv1", 0, "weight"), Key("bn1", 0, "weight"), Key("bn1", 0, "bias")}

HeadParams == {Key("fc", 0, "weight"), Key("fc", 0, "bias")}

\* a parameter is created with requires_grad = True
NewParams(keys) == [p \in keys |-> TRUE]

(***************************************************************************)
(* The initialisation loops at the end of ResNet.__init__.                 *)
(***************************************************************************)
\* nn.init.constant_(m.weight, 1); nn.init.constant_(m.bias, 0)
InitNorm(n) == [n EXCEPT !.weight = 1, !.bias = 0]

InitDownsample(d) == IF d = None THEN None ELSE <<d[1], InitNorm(d[2])>>

\* the first loop over self.modules(), on the normalisation layers of a block
InitBlock(b) ==
    IF b.kind = Bottleneck
    THEN [b EXCEPT !.bn1 = InitNorm(@), !.bn2 = InitNorm(@), !.bn3 = InitNorm(@),
                   !.downsample = InitDownsample(@)]
    ELSE [b EXCEPT !.bn1 = InitNorm(@), !.bn2 = InitNorm(@),
                   !.downsample = InitDownsample(@)]

\* the second loop: isinstance(m, Bottleneck) => m.bn3.weight = 0
ZeroInitBlock(b) ==
    IF b.kind = Bottleneck THEN [b EXCEPT !.bn3.weight = 0] ELSE b

\* each loop over self.modules(), on the blocks of the four stages
GeneralInitLayers(lay) ==
    [k \in DOMAIN lay |-> [i \in DOMAIN lay[k] |-> InitBlock(lay[k][i])]]

ZeroInitLayers(lay) ==
    [k \in DOMAIN lay |-> [i \in DOMAIN lay[k] |-> ZeroInitBlock(lay[k][i])]]

\* faulty variant of InitLayers: the zero override run before the general loop
InitLayersZeroFirst(lay, zero_init_residual) ==
    LET zeroed == IF zero_init_residual THEN ZeroInitLayers(lay) ELSE lay
    IN  GeneralInitLayers(zeroed)

\* the stages after both loops
InitLayers(lay, zero_init_residual) ==
    LET general == GeneralInitLayers(lay)
    IN  IF zero_init_residual THEN ZeroInitLayers(general) ELSE general

(***************************************************************************)
(* load_state_dict: every parameter takes the stored value.                *)
(***************************************************************************)
LoadNorm(n) == [n EXCEPT !.weight = Stored, !.bias = Stored]

LoadDownsample(d) == IF d = None THEN None ELSE <<d[1], LoadNorm(d[2])>>

LoadBlock(b) ==
    IF b.kind = Bottleneck
    THEN [b EXCEPT !.bn1 = LoadNorm(@), !.bn2 = LoadNorm(@), !.bn3 = LoadNorm(@),
                   !.downsample = LoadDownsample(@)]
    ELSE [b EXCEPT !.bn1 = LoadNorm(@), !.bn2 = LoadNorm(@),
                   !.downsample = LoadDownsample(@)]

LoadLayers(lay) ==
    [k \in DOMAIN lay |-> [i \in DOMAIN lay[k] |-> LoadBlock(lay[k][i])]]

(***************************************************************************)
(* The arguments of ResNet.__init__ and of the presets.                    *)
(***************************************************************************)
StagePlanes == <<64, 128, 256, 512>>
StageStride == <<1, 2, 2, 2>>
StageName == <<"layer1", "layer2", "layer3", "layer4">>
Stages == 1..4

\* dilate of the k-th _make_layer call, given the three flags
StageDilate(k, flags) == IF k = 1 THEN FALSE ELSE flags[k - 1]

Presets == {"resnet18", "resnet34", "resnet50", "resnet101", "resnet152"}

PresetBlock(fn) ==
    IF fn \in {"resnet18", "resnet34"} THEN BasicBlock ELSE Bottleneck

PresetLayers(fn) ==
    CASE fn = "resnet18"  -> <<2, 2, 2, 2>>
      [] fn = "resnet34"  -> <<3, 4, 6, 3>>
      [] fn = "resnet50"  -> <<3, 4, 6, 3>>
      [] fn = "resnet101" -> <<3, 4, 23, 3>>
      [] fn = "resnet152" -> <<3, 8, 36, 3>>

\* faulty variant of HeadInFeatures: the expansion factor left out
HeadInFeaturesNoExpansion(block) == 512

\* in_features of the classifier head
HeadInFeatures(block) == 512 * expansion(block)

\* inputs drawn for the calls
RepeatVectors == [Stages -> 1..MaxRepeat]
NoFlags == [is_none |-> TRUE, flags |-> <<>>]
Flags(f) == [is_none |-> FALSE, flags |-> f]
FlagInputs ==
    {NoFlags} \cup {Flags(f) : f \in [1..3 -> BOOLEAN]} \cup {Flags(<<FALSE, TRUE>>)}
NumClassesInputs == {1000, 10}
GroupsInputs == {1, 2}
WidthInputs == {64, 128}

(***************************************************************************)
(* State.                                                                  *)
(***************************************************************************)
VARIABLES
    pc,             \* where the call in progress stands
    raised,         \* the exception that ended the call, "none" otherwise
    call,           \* the entry point called and its own arguments
    cfg,            \* the arguments of ResNet.__init__
    inplanes,       \* self.inplanes
    dilation,       \* self.dilation
    conv1, bn1, maxpool,    \* the stem
    layer,          \* layer[k]: the blocks of self.layer<k>
    fc,             \* the classifier head
    requires_grad,  \* requires_grad of every parameter of the network
    loaded,         \* out_features of fc when load_state_dict ran, 0 if it did not
    hist,           \* history of the freeze / unfreeze calls
    fwd,            \* the shapes of the forward pass in progress
    direct          \* a block constructed directly

vars == <<pc, raised, call, cfg, inplanes, dilation, conv1, bn1, maxpool, layer,
          fc, requires_grad, loaded, hist, fwd, direct>>

NoHist == [last |-> "none", before |-> <<>>, pair |-> FALSE]

Init ==
    /\ pc = "new"
    /\ raised = "none"
    /\ call = <<>>
    /\ cfg = <<>>
    /\ inplanes = 0
    /\ dilation = 0
    /\ conv1 = None
    /\ bn1 = None
    /\ maxpool = None
    /\ layer = [k \in Stages |-> <<>>]
    /\ fc = None
    /\ requires_grad = <<>>
    /\ loaded = 0
    /\ hist = NoHist
    /\ fwd = <<>>
    /\ direct = <<>>

(***************************************************************************)
(* ResNet.__init__, in the order of its statements.                        *)
(***************************************************************************)
\* lines 140-165: the arguments, the flag check and the stem
ResNetInit(block, layers, num_classes, zero_init_residual, groups, width_per_group, replace_stride_with_dilation) ==
    LET flags == IF replace_stride_with_dilation.is_none
                 THEN <<FALSE, FALSE, FALSE>>
                 ELSE replace_stride_with_dilation.flags
    IN  /\ cfg' = [block |-> block, layers |-> layers, num_classes |-> num_classes,
                   zero_init_residual |-> zero_init_residual, groups |-> groups,
                   base_width |-> width_per_group,
                   replace_stride_with_dilation |-> flags]
        /\ IF Len(flags) # 3
           THEN /\ pc' = "raised"
                /\ raised' = "ValueError"
                /\ UNCHANGED <<inplanes, dilation, conv1, bn1, maxpool, requires_grad>>
           ELSE /\ pc' = "layer1"
                /\ raised' = "none"
                /\ inplanes' = 64
                /\ dilation' = 1
                /\ conv1' = Conv2d(3, 64, 7, 2, 3, 1, 1)
                /\ bn1' = norm_layer(64)
                /\ maxpool' = [kernel_size |-> 3, stride |-> 2, padding |-> 1, dilation |-> 1]
                /\ requires_grad' = NewParams(StemParams)
        /\ UNCHANGED <<layer, fc, loaded, hist, fwd, direct>>

\* ResNet(block, layers, ...) called by the user
CallResNet(block, layers, num_classes, zero_init_residual, groups, width_per_group, replace_stride_with_dilation) ==
    /\ pc = "new"
    /\ call' = [fn |-> "ResNet", pretrained |-> FALSE, num_classes |-> num_classes]
    /\ ResNetInit(block, layers, num_classes, zero_init_residual, groups,
                  width_per_group, replace_stride_with_dilation)

\* resnet18 ... resnet152: "model = ResNet(block, layers)"
CallPreset(fn, pretrained, num_classes) ==
    /\ pc = "new"
    /\ call' = [fn |-> fn, pretrained |-> pretrained, num_classes |-> num_classes]
    /\ ResNetInit(PresetBlock(fn), PresetLayers(fn), 1000, FALSE, 1, 64, NoFlags)

\* lines 168-180: self.layer<k> = self._make_layer(...)
MakeLayerCall(k, next) ==
    /\ pc = StageName[k]
    /\ LET r == MakeLayer(cfg.block, StagePlanes[k], cfg.layers[k], StageStride[k],
                          StageDilate(k, cfg.replace_stride_with_dilation),
                          inplanes, dilation, cfg.groups, cfg.base_width)
       IN  IF r.raises # "none"
           THEN /\ pc' = "raised"
                /\ raised' = r.raises
                /\ UNCHANGED <<inplanes, dilation, layer, requires_grad>>
           ELSE /\ pc' = next
                /\ raised' = "none"
                /\ inplanes' = r.inplanes
                /\ dilation' = r.dilation
                /\ layer' = [layer EXCEPT ![k] = r.layers]
                /\ requires_grad' =
                       requires_grad @@ NewParams(LayerParams(StageName[k], r.layers))
    /\ UNCHANGED <<call, cfg, conv1, bn1, maxpool, fc, loaded, hist, fwd, direct>>

Layer1 == MakeLayerCall(1, "layer2")
Layer2 == MakeLayerCall(2, "layer3")
Layer3 == MakeLayerCall(3, "layer4")
Layer4 == MakeLayerCall(4, "head")

\* lines 183-198: the pool, the head and the two initialisation loops
Finish ==
    /\ pc = "head"
    /\ fc' = Linear(HeadInFeatures(cfg.block), cfg.num_classes)
    /\ requires_grad' = requires_grad @@ NewParams(HeadParams)
    /\ bn1' = InitNorm(bn1)
    /\ layer' = InitLayers(layer, cfg.zero_init_residual)
    /\ pc' = IF call.fn = "ResNet" THEN "ready" ELSE "preset_load"
    /\ UNCHANGED <<raised, call, cfg, inplanes, dilation, conv1, maxpool, loaded,
                   hist, fwd, direct>>

(***************************************************************************)
(* The rest of a preset.                                                   *)
(***************************************************************************)
\* "if pretrained: model.load_state_dict(state_dict)"
PresetLoad ==
    /\ pc = "preset_load"
    /\ IF call.pretrained
       THEN /\ loaded' = fc.out_features
            /\ bn1' = LoadNorm(bn1)
            /\ layer' = LoadLayers(layer)
       ELSE UNCHANGED <<loaded, bn1, layer>>
    /\ pc' = "preset_head"
    /\ UNCHANGED <<raised, call, cfg, inplanes, dilation, conv1, maxpool, fc,
                   requires_grad, hist, fwd, direct>>

\* "if num_classes != 1000: model.fc = nn.Linear(512 * model.block.expansion, num_classes)"
PresetHead ==
    /\ pc = "preset_head"
    /\ IF call.num_classes # 1000
       THEN /\ fc' = Linear(HeadInFeatures(cfg.block), call.num_classes)
            /\ requires_grad' = NewParams(HeadParams) @@ requires_grad
       ELSE UNCHANGED <<fc, requires_grad>>
    /\ pc' = "ready"
    /\ UNCHANGED <<raised, call, cfg, inplanes, dilation, conv1, bn1, maxpool, layer,
                   loaded, hist, fwd, direct>>

(***************************************************************************)
(* Blocks constructed directly by the user.                                *)
(***************************************************************************)
\* a shortcut module handed to a block constructor: None, or a projection
\* of the shape _make_layer builds
DownsampleInputs ==
    {None} \cup { <<conv1x1(i, o, s), norm_layer(o)>> : i \in {64}, o \in {64, 256}, s \in {1, 2} }

DirectBlock(block, ip, planes, stride, downsample, groups, base_width, dil) ==
    /\ pc = "new"
    /\ pc' = "direct"
    /\ LET r == BlockRaises(block, groups, base_width, dil)
       IN  /\ raised' = r
           /\ direct' = [block |-> block, inplanes |-> ip, planes |-> planes,
                         stride |-> stride, groups |-> groups,
                         base_width |-> base_width, dilation |-> dil,
                         made |-> IF r = "none"
                                  THEN <<BlockInit(block, ip, planes, stride, downsample,
                                                   groups, base_width, dil)>>
                                  ELSE <<>>]
    /\ UNCHANGED <<call, cfg, inplanes, dilation, conv1, bn1, maxpool, layer, fc,
                   requires_grad, loaded, hist, fwd>>

(***************************************************************************)
(* freeze_backbone and Unfreeze_backbone.                                  *)
(***************************************************************************)
\* faulty variant of FreezeBackbone: the head listed with the backbone
FreezeBackboneWithHead ==
    {"conv1", "bn1", "layer1", "layer2", "layer3", "layer4", "fc"}

\* the list "backbone" of freeze_backbone
FreezeBackbone == {"conv1", "bn1", "layer1", "layer2", "layer3", "layer4"}

\* faulty variant of UnfreezeBackbone: layer4 left out of the list
UnfreezeBackboneShort == {"conv1", "bn1", "layer1", "layer2", "layer3"}

\* the list "backbone" of Unfreeze_backbone
UnfreezeBackbone == {"conv1", "bn1", "layer1", "layer2", "layer3", "layer4"}

\* for module in backbone: for param in module.parameters(): param.requires_grad = value
SetRequiresGrad(rg, backbone, value) ==
    [p \in DOMAIN rg |-> IF p.mod \in backbone THEN value ELSE rg[p]]

freeze_backbone ==
    /\ pc = "ready"
    /\ requires_grad' = SetRequiresGrad(requires_grad, FreezeBackbone, FALSE)
    /\ hist' = [last |-> "freeze", before |-> requires_grad, pair |-> FALSE]
    /\ UNCHANGED <<pc, raised, call, cfg, inplanes, dilation, conv1, bn1, maxpool,
                   layer, fc, loaded, fwd, direct>>

Unfreeze_backbone ==
    /\ pc = "ready"
    /\ requires_grad' = SetRequiresGrad(requires_grad, UnfreezeBackbone, TRUE)
    /\ hist' = [last |-> "unfreeze", before |-> hist.before,
                pair |-> (hist.last = "freeze")]
    /\ UNCHANGED <<pc, raised, call, cfg, inplanes, dilation, conv1, bn1, maxpool,
                   layer, fc, loaded, fwd, direct>>

(***************************************************************************)
(* forward, on shapes (channels, height, width); the batch axis is left    *)
(* out.  BadShape stands for the RuntimeError of a shape mismatch.         *)
(***************************************************************************)
Shape(c, h, w) == [c |-> c, h |-> h, w |-> w]
BadShape == Shape(0, 0, 0)

\* output side of a convolution or pooling window over a side of n
WindowOut(n, m) ==
    ((n + 2 * m.padding - m.dilation * (m.kernel_size - 1) - 1) \div m.stride) + 1

ConvForward(c, x) ==
    IF x = BadShape \/ x.c # c.cin THEN BadShape
    ELSE Shape(c.cout, WindowOut(x.h, c), WindowOut(x.w, c))

NormForward(n, x) ==
    IF x = BadShape \/ x.c # n.num_features THEN BadShape ELSE x

PoolForward(m, x) ==
    IF x = BadShape THEN BadShape ELSE Shape(x.c, WindowOut(x.h, m), WindowOut(x.w, m))

\* "out += identity": identity is broadcast to out, which keeps its shape
AddInPlace(out, identity) ==
    IF out = BadShape \/ identity = BadShape THEN BadShape
    ELSE IF /\ identity.c \in {out.c, 1}
            /\ identity.h \in {out.h, 1}
            /\ identity.w \in {out.w, 1}
         THEN out
         ELSE BadShape

\* the main path of a block, before the addition
MainPath(b, x) ==
    IF b.kind = Bottleneck
    THEN NormForward(b.bn3, ConvForward(b.conv3,
         NormForward(b.bn2, ConvForward(b.conv2,
         NormForward(b.bn1, ConvForward(b.conv1, x))))))
    ELSE NormForward(b.bn2, ConvForward(b.conv2,
         NormForward(b.bn1, ConvForward(b.conv1, x))))

\* "identity": x, or self.downsample(x)
Shortcut(b, x) ==
    IF b.downsample # None
    THEN NormForward(b.downsample[2], ConvForward(b.downsample[1], x))
    ELSE x

BlockForward(b, x) == AddInPlace(MainPath(b, x), Shortcut(b, x))

\* the shapes along a stage: the input, then the output of each block
RECURSIVE StageTrace(_, _)
StageTrace(blocks, x) ==
    IF blocks = <<>> THEN <<x>>
    ELSE <<x>> \o StageTrace(Tail(blocks), BlockForward(Head(blocks), x))

Last(s) == s[Len(s)]

LinearForward(l, x) ==
    IF x = BadShape \/ x.c # l.in_features THEN BadShape ELSE Shape(l.out_features, 1, 1)

\* inputs drawn for forward: every side up to MaxSide, square and not
InputShapes ==
    UNION { {Shape(3, h, h), Shape(3, h, MaxSide + 1 - h)} : h \in 1..MaxSide }

\* model(x): forward runs on x and hands back its result
forward(x) ==
    /\ pc = "ready"
    /\ pc' = "forward"
    /\ LET stem == PoolForward(maxpool, NormForward(bn1, ConvForward(conv1, x)))
           t1 == StageTrace(layer[1], stem)
           t2 == StageTrace(layer[2], Last(t1))
           t3 == StageTrace(layer[3], Last(t2))
           t4 == StageTrace(layer[4], Last(t3))
           pooled == IF Last(t4) = BadShape THEN BadShape ELSE Shape(Last(t4).c, 1, 1)
       IN  fwd' = [x |-> x, stem |-> stem, stages |-> <<t1, t2, t3, t4>>,
                   out |-> LinearForward(fc, pooled)]
    /\ UNCHANGED <<raised, call, cfg, inplanes, dilation, conv1, bn1, maxpool,
                   layer, fc, requires_grad, loaded, hist, direct>>

\* the caller drops the result; the network is as it was before the call
ForwardDone ==
    /\ pc = "forward"
    /\ pc' = "ready"
    /\ fwd' = <<>>
    /\ UNCHANGED <<raised, call, cfg, inplanes, dilation, conv1, bn1, maxpool,
                   layer, fc, requires_grad, loaded, hist, direct>>

(***************************************************************************)
(* Specifications.                                                         *)
(***************************************************************************)
Construct ==
    /\ pc = "new"
    /\ \E block \in Blocks, layers \in RepeatVectors, num_classes \in NumClassesInputs,
       zero_init_residual \in BOOLEAN, groups \in GroupsInputs,
       width_per_group \in WidthInputs, flags \in FlagInputs :
        CallResNet(block, layers, num_classes, zero_init_residual, groups,
                   width_per_group, flags)

ConstructPreset ==
    /\ pc = "new"
    /\ \E fn \in Presets, pretrained \in BOOLEAN, num_classes \in NumClassesInputs :
        CallPreset(fn, pretrained, num_classes)

ConstructBlock ==
    /\ pc = "new"
    /\ \E block \in Blocks, ip \in {64, 256}, planes \in {64, 128}, stride \in {1, 2},
       downsample \in DownsampleInputs, groups \in GroupsInputs,
       base_width \in WidthInputs, dil \in {1, 2} :
        DirectBlock(block, ip, planes, stride, downsample, groups, base_width, dil)

\* ResNet(block, layers) with every other argument at its default
ConstructDefault ==
    /\ pc = "new"
    /\ \E block \in Blocks, layers \in RepeatVectors :
        CallResNet(block, layers, 1000, FALSE, 1, 64, NoFlags)

\* ResNet(block, layers, replace_stride_with_dilation=flags)
ConstructDilated ==
    /\ pc = "new"
    /\ \E block \in Blocks, layers \in RepeatVectors, flags \in FlagInputs :
        CallResNet(block, layers, 1000, FALSE, 1, 64, flags)

Feed == pc = "ready" /\ \E x \in InputShapes : forward(x)

\* construction: ResNet, the presets, the block constructors
Next ==
    \/ Construct
    \/ ConstructPreset
    \/ ConstructBlock
    \/ Layer1
    \/ Layer2
    \/ Layer3
    \/ Layer4
    \/ Finish
    \/ PresetLoad
    \/ PresetHead

Spec == Init /\ [][Next]_vars

\* construction followed by calls of freeze_backbone / Unfreeze_backbone
NextFreeze ==
    \/ ConstructDefault
    \/ ConstructPreset
    \/ Layer1
    \/ Layer2
    \/ Layer3
    \/ Layer4
    \/ Finish
    \/ PresetLoad
    \/ PresetHead
    \/ freeze_backbone
    \/ Unfreeze_backbone

SpecFreeze == Init /\ [][NextFreeze]_vars

\* construction followed by forward passes
NextShape ==
    \/ ConstructDilated
    \/ Layer1
    \/ Layer2
    \/ Layer3
    \/ Layer4
    \/ Finish
    \/ Feed
    \/ ForwardDone

SpecShape == Init /\ [][NextShape]_vars

(***************************************************************************)
(* What the properties read off a network.                                 *)
(***************************************************************************)
\* channels a block takes and gives on its main path
InChannels(b) == b.conv1.cin
OutChannels(b) == IF b.kind = Bottleneck THEN b.conv3.cout ELSE b.conv2.cout

\* channels the shortcut path gives: the input's, or the projection's
ShortcutChannels(b) ==
    IF b.downsample = None THEN InChannels(b) ELSE b.downsample[1].cout

\* the convolution of a block that carries its stride
StrideOf(b) == IF b.kind = Bottleneck THEN b.conv2.stride ELSE b.conv1.stride

\* the 3x3 convolutions of a block
Convs3x3(b) == IF b.kind = Bottleneck THEN {b.conv2} ELSE {b.conv1, b.conv2}

StageBuilt(k) == layer[k] # <<>>

\* channels entering stage k: the stem's, or those leaving stage k - 1
EnterChannels(k) ==
    IF k = 1 THEN conv1.cout ELSE OutChannels(Last(layer[k - 1]))

RECURSIVE StrideProduct(_)
StrideProduct(blocks) ==
    IF blocks = <<>> THEN 1 ELSE StrideOf(Head(blocks)) * StrideProduct(Tail(blocks))

\* spatial stride of the network up to and including stage k
CumulativeStride(k) ==
    LET F[j \in 0..k] == IF j = 0 THEN conv1.stride * maxpool.stride
                         ELSE F[j - 1] * StrideProduct(layer[j])
    IN  F[k]

BackboneNames == {"conv1", "bn1", "layer1", "layer2", "layer3", "layer4"}
BackboneParams == {p \in DOMAIN requires_grad : p.mod \in BackboneNames}

\* the normalisation layers of a block, but the last one of a Bottleneck
PlainNorms(b) ==
    {b.bn1, b.bn2} \cup (IF b.downsample = None THEN {} ELSE {b.downsample[2]})

\* ResNet.__init__ has just returned
JustConstructed ==
    \/ pc = "ready" /\ call.fn = "ResNet"
    \/ pc = "preset_load"

(***************************************************************************)
(* C1.  For every stage _make_layer has built, the channel count leaving   *)
(* the stage is planes * block.expansion, and the first block of the stage *)
(* has a projection shortcut exactly when the effective stride of the      *)
(* stage (1 when its dilate flag is set) is not 1 or the channel count     *)
(* entering the stage differs from planes * block.expansion.               *)
(***************************************************************************)
StageChannelsAndShortcut ==
    \A k \in Stages :
        StageBuilt(k) =>
            LET out == StagePlanes[k] * expansion(cfg.block)
                flag == k > 1 /\ cfg.replace_stride_with_dilation[k - 1]
                effective == IF flag THEN 1 ELSE StageStride[k]
            IN  /\ OutChannels(Last(layer[k])) = out
                /\ (layer[k][1].downsample # None)
                       <=> (effective # 1 \/ EnterChannels(k) # out)

\* a Bottleneck network whose dilated stage 2 has a projection for the
\* channel count alone
StageChannelsAndShortcutWitness ==
    /\ pc = "ready"
    /\ cfg.block = Bottleneck
    /\ cfg.replace_stride_with_dilation[1]
    /\ layer[2][1].downsample # None
    /\ layer[2][1].downsample[1].stride = 1
    /\ EnterChannels(2) = 256

\* main path and shortcut path of block b give the same channel count
ChannelsAgree(b) ==
    /\ OutChannels(b) = ShortcutChannels(b)
    /\ (StrideOf(b) # 1 \/ InChannels(b) # OutChannels(b)) => b.downsample # None

(***************************************************************************)
(* C9 as amended.  Every block the stage builder instantiates has equal    *)
(* channel counts on its main path and its shortcut path, and carries a    *)
(* projection whenever its stride is not 1 or its input and output channel *)
(* counts differ.                                                          *)
(***************************************************************************)
StageBlocksChannelsAgree ==
    \A k \in Stages : \A i \in 1..Len(layer[k]) : ChannelsAgree(layer[k][i])

StageBlocksChannelsAgreeWitness ==
    /\ pc = "ready"
    /\ cfg.block = Bottleneck
    /\ \E k \in Stages : Len(layer[k]) >= 2 /\ layer[k][1].downsample # None

(***************************************************************************)
(* C9 as stated.  The same of every block instantiated, a block            *)
(* constructed directly with arguments that pass its validation included.  *)
(***************************************************************************)
EveryBlockChannelsAgree ==
    /\ StageBlocksChannelsAgree
    /\ pc = "direct" => \A i \in 1..Len(direct.made) : ChannelsAgree(direct.made[i])

\* the state part and the step part of the stride / dilation accounting
StrideTimesDilation ==
    \A k \in Stages :
        (/\ StageBuilt(k)
         /\ k < 4 => ~StageBuilt(k + 1)
         /\ cfg.block = Bottleneck)
        => CumulativeStride(k) * dilation = 4 * 2^(k - 1)

StageDilations ==
    /\ dilation' >= dilation
    /\ \A k \in Stages :
        (~StageBuilt(k) /\ layer'[k] # <<>> /\ cfg.block = Bottleneck)
        => /\ layer'[k][1].conv2.dilation = dilation
           /\ \A i \in 2..Len(layer'[k]) : layer'[k][i].conv2.dilation = dilation'

(***************************************************************************)
(* C10.  With the Bottleneck template, once stage k is the last stage      *)
(* built, the spatial stride of the network up to stage k times the        *)
(* running dilation is 4 * 2^(k-1); the call that builds a stage gives     *)
(* block #1 the dilation in force before the call and blocks 2..n the      *)
(* running dilation after it; the running dilation never decreases.        *)
(***************************************************************************)
StrideDilationAccounting == []StrideTimesDilation /\ [][StageDilations]_vars

\* every stage built, two of them dilated: stride 8, dilation 4
StrideDilationAccountingWitness ==
    /\ pc = "head"
    /\ cfg.block = Bottleneck
    /\ cfg.replace_stride_with_dilation = <<FALSE, TRUE, TRUE>>
    /\ CumulativeStride(4) = 8
    /\ dilation = 4
    /\ Len(layer[3]) >= 2
    /\ layer[3][1].conv2.dilation = 1
    /\ layer[3][2].conv2.dilation = 2

(***************************************************************************)
(* C6.  When ResNet.__init__ returns, the scale of bn3 of every Bottleneck *)
(* is 0 if zero_init_residual is set and 1 otherwise; every other          *)
(* normalisation scale is 1 and every normalisation bias is 0.             *)
(***************************************************************************)
InitialNormValues ==
    JustConstructed =>
        /\ bn1.weight = 1 /\ bn1.bias = 0
        /\ \A k \in Stages : \A i \in 1..Len(layer[k]) :
            LET b == layer[k][i]
            IN  /\ \A n \in PlainNorms(b) : n.weight = 1 /\ n.bias = 0
                /\ b.kind = Bottleneck =>
                       /\ b.bn3.weight = (IF cfg.zero_init_residual THEN 0 ELSE 1)
                       /\ b.bn3.bias = 0

InitialNormValuesWitness ==
    /\ pc = "ready"
    /\ call.fn = "ResNet"
    /\ cfg.zero_init_residual
    /\ cfg.block = Bottleneck
    /\ layer[4][1].bn3.weight = 0
    /\ layer[4][1].bn2.weight = 1
    /\ layer[4][1].downsample[2].weight = 1

(***************************************************************************)
(* C2.  A block at position 2..n of a stage has stride 1, no projection    *)
(* shortcut, as many input as output channels (planes * expansion) and     *)
(* 3x3 convolutions whose padding is their dilation; in a forward pass its *)
(* output has the shape of its input.                                      *)
(***************************************************************************)
LaterBlocksPreserveShape ==
    \A k \in Stages : \A i \in 2..Len(layer[k]) :
        LET b == layer[k][i]
        IN  /\ b.stride = 1
            /\ StrideOf(b) = 1
            /\ b.downsample = None
            /\ InChannels(b) = OutChannels(b)
            /\ OutChannels(b) = StagePlanes[k] * expansion(cfg.block)
            /\ \A c \in Convs3x3(b) : c.padding = c.dilation
            /\ pc = "forward" =>
                   /\ fwd.stages[k][i] # BadShape
                   /\ fwd.stages[k][i + 1] = fwd.stages[k][i]

\* a dilated later block fed something wider than its dilated window
LaterBlocksPreserveShapeWitness ==
    /\ pc = "forward"
    /\ \E k \in Stages :
        /\ Len(layer[k]) >= 2
        /\ layer[k][2].conv2.dilation = 2
        /\ fwd.stages[k][2].h >= 3
        /\ fwd.stages[k][2].w # fwd.stages[k][2].h

\* how many of the flags are set
RECURSIVE CountSet(_)
CountSet(flags) ==
    IF flags = <<>> THEN 0
    ELSE (IF Head(flags) THEN 1 ELSE 0) + CountSet(Tail(flags))

(***************************************************************************)
(* C3.  In a forward pass through a network whose construction succeeded,  *)
(* a stage whose dilate flag is set gives an output of the height and      *)
(* width of its input: block #1 has stride 1 on its main path and on its   *)
(* projection; the running dilation was doubled once per flag set.         *)
(***************************************************************************)
DilatedStageKeepsResolution ==
    pc = "forward" =>
        /\ dilation = 2^CountSet(cfg.replace_stride_with_dilation)
        /\ \A k \in 2..4 :
            cfg.replace_stride_with_dilation[k - 1] =>
                LET x == fwd.stages[k][1]
                    y == Last(fwd.stages[k])
                    b == layer[k][1]
                IN  /\ x # BadShape /\ y # BadShape
                    /\ y.h = x.h /\ y.w = x.w
                    /\ MainPath(b, x).h = x.h /\ MainPath(b, x).w = x.w
                    /\ Shortcut(b, x).h = x.h /\ Shortcut(b, x).w = x.w
                    /\ StrideOf(b) = 1
                    /\ b.downsample # None => b.downsample[1].stride = 1

\* stage 2 dilated, entered with a 9 x 1 input: 9 x 1 leaves it, not 5 x 1
DilatedStageKeepsResolutionWitness ==
    /\ pc = "forward"
    /\ cfg.replace_stride_with_dilation[1]
    /\ fwd.stages[2][1].h = 9
    /\ fwd.stages[2][1].w = 1
    /\ Last(fwd.stages[2]).h = 9

(***************************************************************************)
(* C4 as amended.  After freeze_backbone followed by Unfreeze_backbone     *)
(* every backbone parameter has requires_grad = True; that is the flag it  *)
(* had before the freeze exactly when that flag was True.                  *)
(***************************************************************************)
UnfreezeSetsTrainable ==
    (pc = "ready" /\ hist.pair) =>
        \A p \in BackboneParams :
            /\ requires_grad[p] = TRUE
            /\ (requires_grad[p] = hist.before[p]) <=> (hist.before[p] = TRUE)

\* the round trip from the flags a new network has
UnfreezeSetsTrainableWitness ==
    /\ pc = "ready"
    /\ hist.pair
    /\ BackboneParams # {}
    /\ \A p \in BackboneParams : hist.before[p] = TRUE /\ requires_grad[p] = TRUE

(***************************************************************************)
(* C4 as stated.  After freeze_backbone followed by Unfreeze_backbone      *)
(* every backbone parameter has the requires_grad it had before the        *)
(* freeze.                                                                 *)
(***************************************************************************)
UnfreezeRestoresFlags ==
    (pc = "ready" /\ hist.pair) =>
        \A p \in BackboneParams : requires_grad[p] = hist.before[p]

\* the head flags in a usable network, and what a freeze / unfreeze step may write
HeadFlagsAsCreated ==
    pc = "ready" => \A p \in HeadParams : requires_grad[p] = TRUE

FreezeWritesBackboneOnly ==
    (pc = "ready" /\ pc' = "ready") =>
        /\ DOMAIN requires_grad' = DOMAIN requires_grad
        /\ \A p \in DOMAIN requires_grad :
               p.mod \notin BackboneNames => requires_grad'[p] = requires_grad[p]

(***************************************************************************)
(* C5.  A call of freeze_backbone or Unfreeze_backbone changes the         *)
(* requires_grad of no parameter outside conv1, bn1, layer1 ... layer4, so *)
(* the flags of fc.weight and fc.bias stay what they were when the head    *)
(* was created.                                                            *)
(***************************************************************************)
HeadNeverFrozen == []HeadFlagsAsCreated /\ [][FreezeWritesBackboneOnly]_vars

\* a frozen backbone under a head that a preset replaced
HeadNeverFrozenWitness ==
    /\ pc = "ready"
    /\ hist.last = "freeze"
    /\ call.fn = "resnet50"
    /\ call.num_classes = 10
    /\ \A p \in BackboneParams : requires_grad[p] = FALSE
    /\ \A p \in HeadParams : requires_grad[p] = TRUE

\* what a preset returns, and what its head replacement may write
PresetResult ==
    (pc = "ready" /\ call.fn \in Presets) =>
        LET e == IF call.fn \in {"resnet18", "resnet34"} THEN 1 ELSE 4
        IN  /\ fc.out_features = call.num_classes
            /\ fc.in_features = 512 * e
            /\ fc.in_features = (IF e = 1 THEN 512 ELSE 2048)
            /\ conv1 = Conv2d(3, 64, 7, 2, 3, 1, 1)
            /\ bn1.num_features = 64
            /\ \A k \in Stages :
                /\ Len(layer[k]) = PresetLayers(call.fn)[k]
                /\ \A i \in 1..Len(layer[k]) :
                    LET b == layer[k][i]
                    IN  /\ OutChannels(b) = StagePlanes[k] * e
                        /\ InChannels(b) =
                               (IF i > 1 THEN StagePlanes[k] * e
                                ELSE IF k = 1 THEN 64
                                ELSE StagePlanes[k - 1] * e)
                        /\ StrideOf(b) = (IF i = 1 THEN StageStride[k] ELSE 1)
                        /\ (b.downsample # None) <=> (i = 1 /\ (k > 1 \/ e = 4))
                        /\ \A c \in Convs3x3(b) : c.dilation = 1
            /\ loaded = (IF call.pretrained THEN 1000 ELSE 0)

HeadReplacementFrame ==
    (pc = "preset_head") =>
        /\ <<conv1, bn1, maxpool, layer, loaded>>' = <<conv1, bn1, maxpool, layer, loaded>>
        /\ \A p \in BackboneParams :
               p \in DOMAIN requires_grad' /\ requires_grad'[p] = requires_grad[p]

(***************************************************************************)
(* C7.  A preset called with num_classes returns a network whose head maps *)
(* 512 * expansion inputs (512 for resnet18/34, 2048 for resnet50/101/152) *)
(* to num_classes outputs; its stem and stages are fixed by the preset     *)
(* alone (block counts, channel widths, strides, shortcuts), so they are   *)
(* those of the preset with num_classes = 1000; replacing the head writes  *)
(* nothing of the stem or the stages; and the state dict, when asked for,  *)
(* was loaded while the head still had 1000 outputs.                       *)
(***************************************************************************)
PresetHeadOnly == []PresetResult /\ [][HeadReplacementFrame]_vars

PresetHeadOnlyWitness ==
    /\ pc = "ready"
    /\ call.fn = "resnet50"
    /\ call.num_classes = 10
    /\ call.pretrained
    /\ fc = Linear(2048, 10)
    /\ loaded = 1000
    /\ Len(layer[3]) = 6

\* ResNet.__init__ is between two _make_layer calls
Constructing == pc \in {"layer1", "layer2", "layer3", "layer4"}

\* ResNet was called with BasicBlock and three flags
BasicWithFlags ==
    /\ pc \notin {"new", "direct"}
    /\ cfg.block = BasicBlock
    /\ Len(cfg.replace_stride_with_dilation) = 3

DilatedBlockAsked ==
    \/ cfg.replace_stride_with_dilation[1]
    \/ cfg.replace_stride_with_dilation[2]
    \/ cfg.replace_stride_with_dilation[3] /\ cfg.layers[4] >= 2

(***************************************************************************)
(* C8 as amended.  ResNet with the BasicBlock template raises and yields   *)
(* no network when the dilate flag of stage 2 or of stage 3 is set, or     *)
(* that of stage 4 is set and stage 4 has at least two blocks; with the    *)
(* flag of stage 4 alone and one block in stage 4 no block is asked for a  *)
(* dilation above 1 and construction succeeds.  A BasicBlock constructed   *)
(* directly with dilation > 1 always raises.                               *)
(***************************************************************************)
BasicBlockDilationFatal ==
    /\ (BasicWithFlags /\ DilatedBlockAsked) =>
           /\ Constructing \/ pc = "raised"
           /\ pc = "raised" => raised \in {"NotImplementedError", "ValueError"}
           /\ (pc = "raised" /\ cfg.groups = 1 /\ cfg.base_width = 64)
                  => raised = "NotImplementedError"
           /\ fc = None
    /\ (/\ BasicWithFlags
        /\ cfg.replace_stride_with_dilation = <<FALSE, FALSE, TRUE>>
        /\ cfg.layers[4] = 1
        /\ cfg.groups = 1 /\ cfg.base_width = 64) => pc # "raised"
    /\ (pc = "direct" /\ direct.block = BasicBlock /\ direct.dilation > 1) =>
           raised # "none" /\ direct.made = <<>>

\* stage 4 dilated with two blocks: its second block is refused
BasicBlockDilationFatalWitness ==
    /\ pc = "raised"
    /\ raised = "NotImplementedError"
    /\ cfg.block = BasicBlock
    /\ cfg.replace_stride_with_dilation = <<FALSE, FALSE, TRUE>>
    /\ cfg.layers[4] = 2
    /\ StageBuilt(3)

(***************************************************************************)
(* C8 as stated.  ResNet with the BasicBlock template and at least one of  *)
(* the three dilate flags set raises and yields no network, whatever the   *)
(* four repeat counts; a BasicBlock constructed directly with dilation > 1 *)
(* raises.                                                                 *)
(***************************************************************************)
AnyFlagFatalForBasicBlock ==
    /\ (/\ BasicWithFlags
        /\ \E j \in 1..3 : cfg.replace_stride_with_dilation[j])
       => /\ Constructing \/ pc = "raised"
          /\ fc = None
    /\ (pc = "direct" /\ direct.block = BasicBlock /\ direct.dilation > 1) =>
           raised # "none" /\ direct.made = <<>>

====
